---- MODULE Spec2Model ----
(***************************************************************************)
(* A model of mrunner's experiment deployment pipeline:                    *)
(*   - the `run` command of mrunner_cli.py (validation, generation,        *)
(*     shuffle/limit, single dispatch or fan-out through a worker pool,    *)
(*     guaranteed clean-up of the neptune directory)        -> Spec        *)
(*   - `doit` (the parameter merger and the backend dispatcher) together   *)
(*     with LocalBackend.run and SlurmBackend.run           -> SpecDoit    *)
(*   - the `cli` group callback (context selection) followed by the run    *)
(*     subcommand                                           -> SpecCli     *)
(*   - a lone call of merge(a, b)                           -> SpecMerge   *)
(* Python dicts are modelled as tagged values: S(x) is a scalar, D(f) is a *)
(* dict whose items are the function f from keys to tagged values.         *)
(***************************************************************************)
EXTENDS Integers, Sequences, FiniteSets, TLC

VARIABLES
  \* ---- inputs of doit / of a direct backend call ----
  entry,            \* the operation invoked: "doit", "slurm", "local", "run", "cli", "merge"
  context,          \* the active context (dict)
  in_experiment,    \* the generated experiment: its cli_params (dict)
  cli_kwargs,       \* doit's **cli_kwargs (dict)
  cpu,              \* --cpu option: "None" or a quantity
  dry_run,          \* --dry-run
  neptune_support,  \* context['neptune'] or --neptune
  neptune_version,  \* NEPTUNE_LOCAL_VERSION.version[0]
  token_exists,     \* the local neptune token file exists
  ssh_keys,         \* Agent().get_keys() is non-empty
  \* ---- doit ----
  doit_pc,          \* position inside doit
  experiment,       \* doit's local variable `experiment` (dict)
  doit_err,         \* the exception doit raised, or "none"
  doit_result,      \* doit's return value, or "none"
  handed,           \* the record passed to backend.run, or NoRecord
  backend_invoked,  \* the backend class whose run was entered, or "none"
  \* ---- LocalBackend.run ----
  os_environ,       \* the ambient process environment (os.environ)
  child_env,        \* environment of the spawned child, or NoEnv
  child_exit,       \* exit code of the spawned child, or -1
  local_ret,        \* value returned by LocalBackend.run: "none", "None" or a code
  \* ---- SlurmBackend.run ----
  slurm_state,      \* progress of SlurmBackend.run
  slurm_exp,        \* the ExperimentRunOnSlurm instance (scratch dir, resources...)
  remote_log,       \* remote commands and uploads, in execution order
  remote_paths,     \* the remote path each of them addresses (<< >> when none)
  remote_fs,        \* directories and files present on the remote host
  slurm_cmd,        \* cmd_items of the submission command built, or << >>
  \* ---- run command ----
  run_pc,           \* position inside run
  opts,             \* options of the run command
  neptune_dir,      \* the local variable neptune_dir: "None" or "set"
  dir_exists,       \* the neptune_<stem> directory exists on disk
  artifacts,        \* number of tracking-artifact files written by the generator
  generated,        \* the full generated sequence of experiments
  experiments,      \* run's local variable `experiments`
  submitted,        \* pool: number of experiments submitted so far
  task,             \* pool: state of each submitted work item
  dispatched,       \* number of times doit was entered, per batch index
  futures,          \* run's local list `futures` (batch indices)
  collected,        \* batch indices whose future.result() was called
  run_err,          \* the exception travelling out of run's try block, or "none"
  run_result,       \* "none", "ok" (returned normally) or "raised"
  \* ---- cli group callback ----
  cli_args,         \* invoked subcommand, --context, the loaded configuration
  cli_pc,           \* "idle", "start", "raised" or "invoked" (the subcommand runs)
  \* ---- merge(a, b) called on its own ----
  merge_a,          \* first argument
  merge_b,          \* second argument
  merge_out         \* the value returned, or NoRecord

doit_inputs == <<entry, context, in_experiment, cli_kwargs, cpu, dry_run, neptune_support,
                 neptune_version, token_exists, ssh_keys>>
doit_vars   == <<doit_pc, experiment, doit_err, doit_result, handed, backend_invoked>>
local_vars  == <<os_environ, child_env, child_exit, local_ret>>
slurm_vars  == <<slurm_state, slurm_exp, remote_log, remote_paths, remote_fs, slurm_cmd>>
run_vars    == <<run_pc, opts, neptune_dir, dir_exists, artifacts, generated, experiments,
                 submitted, task, dispatched, futures, collected, run_err, run_result>>
cli_vars    == <<cli_args, cli_pc>>
merge_vars  == <<merge_a, merge_b, merge_out>>
vars == <<cli_vars, merge_vars, doit_inputs, doit_vars, local_vars, slurm_vars, run_vars>>

(***************************************************************************)
(* Python dict values                                                      *)
(***************************************************************************)
S(x) == [t |-> "s", s |-> x, d |-> <<>>]
D(f) == [t |-> "d", s |-> "", d |-> f]
EmptyDict == D(<<>>)
IsDict(v) == v.t = "d"
Keys(v) == DOMAIN v.d
Has(v, k) == IsDict(v) /\ k \in DOMAIN v.d
Get(v, k) == v.d[k]
\* d.get(k, default)
GetOr(v, k, default) == IF Has(v, k) THEN v.d[k] ELSE default
\* d[k] = x
Put(v, k, x) == D((k :> x) @@ v.d)
\* d.pop(k) (the remaining dict)
Pop(v, k) == D([j \in DOMAIN v.d \ {k} |-> v.d[j]])
\* d.update(u): shallow, u's items win
Update(v, u) == D(u.d @@ v.d)
\* d[k1][k2] = x
Put2(v, k1, k2, x) == Put(v, k1, Put(Get(v, k1), k2, x))
Has2(v, k1, k2) == Has(v, k1) /\ Has(Get(v, k1), k2)
Get2(v, k1, k2) == Get(Get(v, k1), k2)

NoRecord == S("no-record")

(***************************************************************************)
(* merge (mrunner_cli.py:85-91) and overwrite_using_overwrite_dict         *)
(***************************************************************************)
\* Mutant of merge: a colliding key takes b's value even when both are mappings
merge_Shallow(a, b) ==
  IF IsDict(b) /\ IsDict(a) THEN D(b.d @@ a.d) ELSE b

RECURSIVE merge(_, _)
merge(a, b) ==
  IF IsDict(b) /\ IsDict(a)
  THEN LET a_and_b   == Keys(a) \cap Keys(b)
           every_key == Keys(a) \cup Keys(b)
       IN  D([k \in every_key |->
                IF k \in a_and_b THEN merge(Get(a, k), Get(b, k))
                ELSE IF k \in Keys(a) THEN Get(a, k) ELSE Get(b, k)])
  ELSE b

overwrite_using_overwrite_dict(d1, d2) == merge(d1, d2)

(***************************************************************************)
(* doit and its helpers, as pure stages over the dict `experiment`.        *)
(* A stage yields R(err, rec): err = "none" and the new dict, or the       *)
(* exception raised.                                                       *)
(***************************************************************************)
R(err, rec) == [err |-> err, rec |-> rec]

BackendTypes == {"kubernetes", "slurm", "local"}

\* re.sub(r'[ .,_-]+', '-', name.lower()) on the experiment names in use
lower_sub(name) == CASE name = "My_Exp.1" -> "my-exp-1"
                     [] name = "sweep"    -> "sweep"
                     [] OTHER             -> name

\* mrunner.experiment.merge_experiment_parameters: context defaults, then the
\* neptune config, then the cli/spec parameters (later wins, dicts merged deeply)
merge_experiment_parameters(cli_kwargs_, neptune_config, ctx) ==
  merge(merge(ctx, neptune_config), cli_kwargs_)

\* mrunner_cli.py:189-201
experiment_to_some_dict(exp, ctx, kwargs) ==
  LET named       == Put(exp.cli_params, "name", S(lower_sub(Get(exp.cli_params, "name").s)))
      with_cwd    == Put(named, "cwd", S("cwd"))
      cli_kwargs_ == Update(with_cwd, kwargs)
      merged      == merge_experiment_parameters(cli_kwargs_, EmptyDict, ctx)
  IN  Put(merged, "neptune_yaml_path", S(exp.neptune_yaml_path))

\* mrunner_cli.py:251-259: the MPI hack replacing resources for slurm
slurm_resources_hack(rec) ==
  LET ow == Get(rec, "overwrite_dict")
  IN  IF ~ (Has(rec, "account") /\ Has(rec, "partition") /\ Has(rec, "time")
            /\ Has(rec, "overwrite_dict")
            /\ Has(ow, "ntasks") /\ Has(ow, "num_nodes")
            /\ Has2(ow, "resources", "cpu") /\ Has2(ow, "resources", "mem"))
      THEN R("KeyError", rec)
      ELSE R("none", Put(rec, "resources",
               D(  ("account"       :> Get(rec, "account"))
                @@ ("partition"     :> Get(rec, "partition"))
                @@ ("time"          :> Get(rec, "time"))
                @@ ("ntasks"        :> Get(ow, "ntasks"))
                @@ ("nodes"         :> Get(ow, "num_nodes"))
                @@ ("cpus-per-task" :> Get2(ow, "resources", "cpu"))
                @@ ("mem"           :> Get2(ow, "resources", "mem")))))

\* mrunner_cli.py:208-270
doit_neptune(rec0, support, version, tok_exists) ==
  LET rec1 == Update(rec0, D(("base_image" :> S("img")) @@ ("requirements" :> S("[]"))))
  IN
  IF ~ support THEN R("ClickException", rec1)
  ELSE IF ~ Has(rec1, "script") THEN R("KeyError", rec1)
  ELSE
    LET rec2 == Pop(rec1, "script")
        rec3 == IF version = 2 THEN Put(rec2, "local_neptune_token", S("NeptuneToken"))
                ELSE rec2
    IN
    IF version = 2 /\ ~ tok_exists THEN R("AssertionError", rec3)
    ELSE IF version = 2 /\ Get(rec3, "backend_type").s \notin BackendTypes
    THEN R("KeyError", rec3)
    ELSE
      LET rec4 == Put(Put(rec3, "neptune_cmd", S("NeptuneWrapperCmd")),
                      "neptune_cmd_offline", S("NeptuneWrapperCmd-offline"))
      IN
      IF ~ Has(rec4, "env") \/ ~ IsDict(Get(rec4, "env")) THEN R("KeyError", rec4)
      ELSE
        LET rec5 == Put2(Put2(Put2(rec4,
                           "env", "NEPTUNE_CMD", S("neptune-cmd")),
                           "env", "NEPTUNE_CMD_OFFLINE", S("neptune-cmd-offline")),
                           "env", "NEPTUNE_YAML_PATH", Get(rec4, "neptune_yaml_path"))
            hack == IF Get(rec5, "backend_type").s = "slurm"
                    THEN slurm_resources_hack(rec5) ELSE R("none", rec5)
        IN
        IF hack.err # "none" THEN hack
        ELSE
          LET rec6 == hack.rec
              rec7 == IF Has(rec6, "entrypoint_path")
                      THEN Put(rec6, "cmd", S("SimpleCommand"))
                      ELSE Put(rec6, "cmd", Get(rec6, "neptune_cmd"))
              rec8 == IF Has(rec7, "paths_to_copy") THEN rec7
                      ELSE Put(rec7, "paths_to_copy", S("[]"))
          IN R("none", rec8)

\* mrunner_cli.py:272-275: the overwrite_dict pass
doit_overwrite(rec, yaml_path) ==
  LET rec1 == Put(rec, "neptune_yaml_path", yaml_path)
      rec2 == overwrite_using_overwrite_dict(rec1, GetOr(rec1, "overwrite_dict", EmptyDict))
  IN  IF ~ Has(rec2, "overwrite_dict") THEN R("KeyError", rec2)
      ELSE R("none", Pop(rec2, "overwrite_dict"))

\* mrunner_cli.py:276-277: the --cpu option
doit_cpu(rec, cpu_opt) ==
  IF cpu_opt = "None" THEN R("none", rec)
  ELSE IF ~ Has(rec, "resources") \/ ~ IsDict(Get(rec, "resources")) THEN R("KeyError", rec)
  ELSE R("none", Put2(rec, "resources", "cpu", S(cpu_opt)))

\* mrunner_cli.py:285: env.update(env_update)
doit_env_update(rec) ==
  IF ~ Has(rec, "env") \/ ~ IsDict(Get(rec, "env")) THEN R("KeyError", rec)
  ELSE R("none", Put(rec, "env", Update(Get(rec, "env"), GetOr(rec, "env_update", EmptyDict))))

\* Mutant of backend_class: an unknown backend_type falls back to a default backend
backend_class_WithDefault(rec) ==
  LET bt == Get(rec, "backend_type").s
  IN  IF bt = "slurm" THEN "SlurmBackend"
      ELSE IF bt = "local" THEN "LocalBackend"
      ELSE "KubernetesBackend"

\* mrunner_cli.py:287-291: the backend table
backend_class(rec) ==
  LET bt == Get(rec, "backend_type").s
  IN  IF bt = "kubernetes" THEN "KubernetesBackend"
      ELSE IF bt = "slurm" THEN "SlurmBackend"
      ELSE IF bt = "local" THEN "LocalBackend"
      ELSE "KeyError"

\* Does <Backend>.run accept the call run(experiment=..., dry_run=...)?
\* LocalBackend.run(self, experiment) takes no dry_run (local.py:16);
\* SlurmBackend.run(self, experiment, dry_run=False) does (slurm.py:184);
\* KubernetesBackend.run follows the uniform contract run(experiment, dry_run).
accepts_dry_run(cls) == cls \in {"SlurmBackend", "KubernetesBackend"}

(***************************************************************************)
(* Inputs of SpecDoit: contexts, generated experiments, options            *)
(***************************************************************************)
\* A context as cli() validates it (mrunner_cli.py:70-72), optionally with defaults
Context(bt, with_defaults) ==
  D(  ("backend_type" :> S(bt)) @@ ("storage_dir" :> S("/storage"))
   @@ ("neptune" :> S("True")) @@ ("context_name" :> S("ctx"))
   @@ IF with_defaults
      THEN   ("partition" :> S("ctx")) @@ ("account" :> S("ctx")) @@ ("time" :> S("ctx"))
          @@ ("resources" :> D("cpu" :> S("ctx")))
          @@ ("env" :> D(("A" :> S("ctx")) @@ ("B" :> S("ctx"))))
      ELSE <<>>)

Contexts == { Context(bt, dflt) : bt \in BackendTypes \cup {"mesos"}, dflt \in BOOLEAN }

\* overwrite_dict variants a spec may supply
OverwriteDicts ==
  { EmptyDict,
    D(  ("ntasks" :> S("ow")) @@ ("num_nodes" :> S("ow"))
     @@ ("resources" :> D(("cpu" :> S("ow")) @@ ("mem" :> S("ow"))))),
    D(  ("ntasks" :> S("ow")) @@ ("num_nodes" :> S("ow"))
     @@ ("resources" :> D(("cpu" :> S("ow")) @@ ("mem" :> S("ow"))))
     @@ ("partition" :> S("ow"))
     @@ ("env" :> D("A" :> S("ow")))) }

EnvUpdates == { D("A" :> S("upd")), D("NEPTUNE_YAML_PATH" :> S("upd")) }

\* cli_params of a generated experiment: name and script always, the rest optional
CliParams(base, ow, upd) ==
  D(  ("name" :> S("My_Exp.1")) @@ ("script" :> S("train.py"))
   @@ (CASE base = "bare"  -> <<>>
         [] base = "plain" -> ("env" :> EmptyDict)
         [] base = "rich"  -> ("env" :> D("A" :> S("spec"))) @@ ("partition" :> S("spec"))
                              @@ ("resources" :> D("cpu" :> S("spec"))))
   @@ (IF ow = NoRecord THEN <<>> ELSE ("overwrite_dict" :> ow))
   @@ (IF upd = NoRecord THEN <<>> ELSE ("env_update" :> upd)))

GeneratedExperiments ==
  { [neptune_yaml_path |-> "exp.yaml", cli_params |-> CliParams(base, ow, upd)] :
      base \in {"bare", "plain", "rich"},
      ow \in OverwriteDicts \cup {NoRecord},
      upd \in EnvUpdates \cup {NoRecord} }

CliKwargs == { EmptyDict, D("partition" :> S("cli")) }
CpuOptions == { "None", "cli" }

\* Records handed straight to a backend's run (a direct call of the backend)
DirectLocalRecords ==
  { D(  ("neptune_yaml_path" :> S("exp.yaml")) @@ ("storage_dir" :> S("/storage"))
     @@ ("cmd" :> S("SimpleCommand")) @@ ("env" :> e)) :
      e \in { EmptyDict, D("A" :> S("exp")), D("NEPTUNE_YAML_PATH" :> S("exp")) } }

\* Node and task counts an experiment may configure (positive integers, as YAML
\* loads them), printed as Python prints them
MaxCount == 2
Counts == { S(ToString(n)) : n \in 1..MaxCount }

DirectSlurmRecords ==
  { D(  ("storage_dir" :> S("/storage")) @@ ("cmd" :> S("SimpleCommand"))
     @@ ("env" :> EmptyDict) @@ ("resources" :> r)
     @@ (IF tok THEN ("local_neptune_token" :> S("NeptuneToken")) ELSE <<>>)
     @@ (IF nt = NoRecord THEN <<>> ELSE ("ntasks" :> nt))
     @@ (IF nn = NoRecord THEN <<>> ELSE ("num_nodes" :> nn))
     @@ (IF ct = NoRecord THEN <<>> ELSE ("cmd_type" :> ct))) :
      r \in { EmptyDict,
              D("cpu" :> S("2")),
              D(("cpu" :> S("4")) @@ ("gpu" :> S("2")) @@ ("mem" :> S("8G"))),
              D(("cpu" :> S("4")) @@ ("tpu" :> S("1"))) },
      tok \in BOOLEAN,
      nt \in Counts \cup {NoRecord},
      nn \in Counts \cup {NoRecord},
      ct \in {S("sbatch"), NoRecord} }

ExitCodes == {"0", "1", "3"}

(***************************************************************************)
(* SlurmBackend (slurm.py:182-260)                                         *)
(***************************************************************************)
NumRandomIds == 2
RandomIds == 1..NumRandomIds

\* Python's None, and `x or default`
None == S("None")
Falsy(v) == IF IsDict(v) THEN Keys(v) = {} ELSE v.s \in {"None", "False", "", "0"}
Or(v, default) == IF Falsy(v) THEN default ELSE v

\* Remote paths are sequences of components; PathStr joins them with "/"
RECURSIVE PathStr(_)
PathStr(path) ==
  IF Len(path) = 0 THEN ""
  ELSE IF Len(path) = 1 THEN path[1]
  ELSE path[1] \o "/" \o PathStr(Tail(path))

\* slurm.py:37-40: $SCRATCH / scratch_subdir / <user_id>_<project>
generate_project_scratch_dir == <<"$SCRATCH", "mrunner_scratch", "user_project">>

\* slurm.py:30-34: the project directory / <name>_<random_id>
generate_experiment_scratch_dir(random_id) ==
  generate_project_scratch_dir \o <<"name_" \o ToString(random_id)>>

\* slurm.py:43-74: the fields of ExperimentRunOnSlurm the backend reads; the
\* run-time related ones default to None, the scratch directories are computed
\* when the instance is built (attr.Factory) and the instance is frozen
ExperimentRunOnSlurm(scratch, rec) ==
  [scratch |-> scratch,
   project_scratch_dir |-> generate_project_scratch_dir,
   experiment_scratch_dir |-> generate_experiment_scratch_dir(scratch),
   resources |-> GetOr(rec, "resources", EmptyDict),
   local_neptune_token |-> Has(rec, "local_neptune_token"),
   account |-> GetOr(rec, "account", None),
   partition |-> GetOr(rec, "partition", S("PLGRID_TESTING_PARTITION")),
   log_output_path |-> GetOr(rec, "log_output_path", None),
   time |-> GetOr(rec, "time", None),
   ntasks |-> GetOr(rec, "ntasks", None),
   num_nodes |-> GetOr(rec, "num_nodes", None),
   cmd_type |-> GetOr(rec, "cmd_type", S("srun")).s]

NoSlurmExp == ExperimentRunOnSlurm(0, EmptyDict)

\* One remote command or upload, and whether it succeeded
Op(cmd, ok) == [cmd |-> cmd, ok |-> ok]
Ran(cmd) == \E i \in 1..Len(remote_log) : remote_log[i].cmd = cmd
PositionsOf(cmd) == { i \in 1..Len(remote_log) : remote_log[i].cmd = cmd }

SupportedResources == {"cpu", "gpu", "mem"}

\* slurm.py:139-171: the error _resources_items raises for a resources mapping
resources_items_error(resources) ==
  IF Keys(resources) = {} THEN "AttributeError"   \* `{} or None` is None: None.items()
  ELSE IF Keys(resources) \subseteq SupportedResources THEN "none"
  ELSE "ValueError"

\* slurm.py:95-98: the path of the experiment directory relative to the project
\* directory, with ".sh" appended
script_name(e) ==
  LET rel == SubSeq(e.experiment_scratch_dir, Len(e.project_scratch_dir) + 1,
                    Len(e.experiment_scratch_dir))
  IN  PathStr(rel) \o ".sh"

\* slurm.py:238
remote_script_path(e) == e.project_scratch_dir \o <<script_name(e)>>

\* The remote path a step addresses (slurm.py:217-218, 230-233, 239, 246-247; the
\* submitted command names the script and, for sbatch, the log)
remote_path(cmd, e) ==
  CASE cmd = "mkdir -p experiment_scratch_dir" -> e.experiment_scratch_dir
    [] cmd = "mkdir -p storage_dir" -> <<"storage_dir">>
    [] cmd = "mkdir -p token_dir" -> <<"token_dir">>
    [] cmd = "put token" -> <<"token_dir", "token">>
    [] cmd = "put archive" -> e.experiment_scratch_dir
    [] cmd = "tar xf archive && rm archive" -> e.experiment_scratch_dir
    [] cmd = "put script" -> remote_script_path(e)
    [] cmd = "submit" -> remote_script_path(e)
    [] OTHER -> << >>

\* int(x) of a scalar printed in decimal; Python raises ValueError for the others
int_raises(v) == ~ \E n \in 0..MaxCount : ToString(n) = v.s
int(v) == CHOOSE n \in 0..MaxCount : ToString(n) = v.s

\* slurm.py:139-140: SlurmWrappersCmd has no attribute of these names itself, so
\* the value is `getattr(self._experiment, key) or None`
SlurmWrappersCmd_getattr(exp, key) == Or(exp[key], None)

\* Mutant of cpu_items: the tasks-count flag has no default
cpu_items_NoTasksDefault(resource_qty, exp) ==
  LET ntasks    == SlurmWrappersCmd_getattr(exp, "ntasks")
      num_nodes == SlurmWrappersCmd_getattr(exp, "num_nodes")
  IN     <<"-c", resource_qty.s>>
      \o (IF num_nodes # None THEN <<"-N", num_nodes.s>> ELSE << >>)
      \o (IF ntasks # None THEN <<"-n", ntasks.s>> ELSE << >>)

\* slurm.py:147-160: the flag group of the cpu resource
cpu_items(resource_qty, exp) ==
  LET ntasks    == int(Or(SlurmWrappersCmd_getattr(exp, "ntasks"), S("1")))
      num_nodes == SlurmWrappersCmd_getattr(exp, "num_nodes")
  IN     <<"-c", resource_qty.s>>
      \o (IF num_nodes # None THEN <<"-N", num_nodes.s>> ELSE << >>)
      \o (IF ntasks # 0 THEN <<"-n", ToString(ntasks)>> ELSE << >>)

\* slurm.py:142-171: R(error, flag group per resource key)
resources_items(exp) ==
  LET mrunner_resources == SlurmWrappersCmd_getattr(exp, "resources")
  IN  IF mrunner_resources = None THEN R("AttributeError", << >>)    \* None.items()
      ELSE IF ~ (Keys(mrunner_resources) \subseteq SupportedResources)
      THEN R("ValueError", << >>)
      ELSE IF /\ "cpu" \in Keys(mrunner_resources)
              /\ int_raises(Or(SlurmWrappersCmd_getattr(exp, "ntasks"), S("1")))
      THEN R("ValueError", << >>)
      ELSE R("none",
             [k \in Keys(mrunner_resources) |->
                LET resource_qty == Get(mrunner_resources, k)
                IN  CASE k = "cpu" -> cpu_items(resource_qty, exp)
                      [] k = "gpu" -> <<"--gres", "gpu:" \o resource_qty.s>>
                      [] k = "mem" -> <<"--mem", resource_qty.s>>])

\* The groups in the mapping's iteration order (the records here list cpu, gpu, mem)
flat_items(items) ==
     (IF "cpu" \in DOMAIN items THEN items["cpu"] ELSE << >>)
  \o (IF "gpu" \in DOMAIN items THEN items["gpu"] ELSE << >>)
  \o (IF "mem" \in DOMAIN items THEN items["mem"] ELSE << >>)

\* slurm.py:121-126
extend_cmd_items(option, value, default) ==
  IF ~ Falsy(value) THEN <<option, value.s>>
  ELSE IF ~ Falsy(default) THEN <<option, default.s>>
  ELSE << >>

\* slurm.py:111-137: cmd_items of the submission command (joined with spaces)
command(exp, script_path) ==
  LET default_log_path == IF exp.cmd_type = "sbatch"
                          THEN S(PathStr(exp.experiment_scratch_dir \o <<"slurm.log">>))
                          ELSE None
  IN     <<exp.cmd_type>>
      \o extend_cmd_items("-A", SlurmWrappersCmd_getattr(exp, "account"), None)
      \o extend_cmd_items("-o", SlurmWrappersCmd_getattr(exp, "log_output_path"),
                           default_log_path)
      \o extend_cmd_items("-p", SlurmWrappersCmd_getattr(exp, "partition"), None)
      \o extend_cmd_items("-t", SlurmWrappersCmd_getattr(exp, "time"), None)
      \o flat_items(resources_items(exp).rec)
      \o <<script_path>>

SlurmTerminal == {"Submitted", "DryRunReported", "AssertionError", "SystemExit",
                  "ValueError", "AttributeError"}
SlurmRaised == SlurmTerminal \ {"Submitted", "DryRunReported"}

\* Mutant of SlurmConfigure: the scratch directory is asked for before the agent's
\* keys are checked
SlurmConfigure_EchoBeforeAssert ==
  /\ slurm_state = "called"
  /\ \E ok \in BOOLEAN, id \in RandomIds :
       /\ remote_log' = Append(remote_log, Op("echo $SCRATCH", ok))
       /\ remote_paths' = Append(remote_paths, << >>)
       /\ IF ~ ok
          THEN /\ slurm_state' = "SystemExit"
               /\ UNCHANGED slurm_exp
          ELSE IF ~ ssh_keys
          THEN /\ slurm_state' = "AssertionError"
               /\ UNCHANGED slurm_exp
          ELSE /\ slurm_state' = "Configured"
               /\ slurm_exp' = ExperimentRunOnSlurm(id, handed)
  /\ UNCHANGED <<cli_vars, merge_vars, doit_inputs, doit_vars, local_vars, remote_fs,
                 slurm_cmd, run_vars>>

\* slurm.py:185-204: the key assertion, `echo $SCRATCH`, ExperimentRunOnSlurm(...)
SlurmConfigure ==
  /\ slurm_state = "called"
  /\ \/ /\ ~ ssh_keys
        /\ slurm_state' = "AssertionError"
        /\ UNCHANGED <<slurm_exp, remote_log, remote_paths>>
     \/ /\ ssh_keys
        /\ \E ok \in BOOLEAN, id \in RandomIds :
             /\ remote_log' = Append(remote_log, Op("echo $SCRATCH", ok))
             /\ remote_paths' = Append(remote_paths, << >>)
             /\ IF ok
                THEN /\ slurm_state' = "Configured"
                     /\ slurm_exp' = ExperimentRunOnSlurm(id, handed)
                ELSE /\ slurm_state' = "SystemExit"
                     /\ UNCHANGED slurm_exp
  /\ UNCHANGED <<cli_vars, merge_vars, doit_inputs, doit_vars, local_vars, remote_fs,
                 slurm_cmd, run_vars>>

\* slurm.py:213-214
SlurmDryRun ==
  /\ slurm_state = "Configured"
  /\ dry_run
  /\ slurm_state' = "DryRunReported"
  /\ UNCHANGED <<cli_vars, merge_vars, doit_inputs, doit_vars, local_vars, slurm_exp, remote_log, remote_paths,
                 remote_fs, slurm_cmd, run_vars>>

\* Mutant of RemoteSteps: a failing step does not stop the sequence
RemoteSteps_ContinuesAfterFailure(steps, n_ok, done) ==
  /\ remote_log' = remote_log \o
       [i \in 1..Len(steps) |-> Op(steps[i].cmd, i # n_ok + 1)]
  /\ remote_paths' = remote_paths \o
       [i \in 1..Len(steps) |-> remote_path(steps[i].cmd, slurm_exp)]
  /\ remote_fs' = (remote_fs \cup UNION { steps[i].creates : i \in 1..Len(steps) \ {n_ok + 1} })
                     \ UNION { steps[i].removes : i \in 1..Len(steps) \ {n_ok + 1} }
  /\ slurm_state' = done

\* Mutant of RemoteSteps: every read of experiment_scratch_dir generates the
\* directory name anew (a fresh random id)
RemoteSteps_RegeneratesScratch(steps, n_ok, done) ==
  /\ remote_log' = remote_log \o
       [i \in 1..(IF n_ok < Len(steps) THEN n_ok + 1 ELSE n_ok) |-> Op(steps[i].cmd, i <= n_ok)]
  /\ \E ids \in [1..Len(steps) -> RandomIds] :
       remote_paths' = remote_paths \o
         [i \in 1..(IF n_ok < Len(steps) THEN n_ok + 1 ELSE n_ok) |->
            remote_path(steps[i].cmd,
                        [slurm_exp EXCEPT !.experiment_scratch_dir =
                                            generate_experiment_scratch_dir(ids[i])])]
  /\ remote_fs' = (remote_fs \cup UNION { steps[i].creates : i \in 1..n_ok })
                     \ UNION { steps[i].removes : i \in 1..n_ok }
  /\ slurm_state' = IF n_ok = Len(steps) THEN done ELSE "SystemExit"

\* Executes the remote steps `steps` (each [cmd, creates, removes]) in order until one
\* fails (n_ok of them succeed); the next state is `done` if all succeeded.
RemoteSteps(steps, n_ok, done) ==
  /\ remote_log' = remote_log \o
       [i \in 1..(IF n_ok < Len(steps) THEN n_ok + 1 ELSE n_ok) |-> Op(steps[i].cmd, i <= n_ok)]
  /\ remote_paths' = remote_paths \o
       [i \in 1..(IF n_ok < Len(steps) THEN n_ok + 1 ELSE n_ok) |->
          remote_path(steps[i].cmd, slurm_exp)]
  /\ remote_fs' = (remote_fs \cup UNION { steps[i].creates : i \in 1..n_ok })
                     \ UNION { steps[i].removes : i \in 1..n_ok }
  /\ slurm_state' = IF n_ok = Len(steps) THEN done ELSE "SystemExit"

Step(cmd, creates, removes) == [cmd |-> cmd, creates |-> creates, removes |-> removes]

\* slurm.py:216-218
ensure_directories_steps ==
  << Step("mkdir -p experiment_scratch_dir", {"experiment_scratch_dir"}, {}),
     Step("mkdir -p storage_dir", {"storage_dir"}, {}) >>

\* Mutant of deploy_neptune_token_steps: the token is deployed unconditionally
deploy_neptune_token_steps_Always ==
  << Step("mkdir -p token_dir", {"token_dir"}, {}),
     Step("put token", {"remote_token"}, {}) >>

\* slurm.py:243-247
deploy_neptune_token_steps ==
  IF slurm_exp.local_neptune_token
  THEN << Step("mkdir -p token_dir", {"token_dir"}, {}),
          Step("put token", {"remote_token"}, {}) >>
  ELSE << >>

\* slurm.py:220-241
deploy_code_steps ==
  << Step("put archive", {"archive"}, {}),
     Step("tar xf archive && rm archive", {"code"}, {"archive"}),
     Step("put script", {"script"}, {}) >>

\* Mutant of SlurmEnsureDirectories: the dry_run flag is not consulted
SlurmEnsureDirectories_IgnoresDryRun ==
  /\ slurm_state = "Configured"
  /\ \E n_ok \in 0..Len(ensure_directories_steps) :
       RemoteSteps(ensure_directories_steps, n_ok, "DirectoriesEnsured")
  /\ UNCHANGED <<cli_vars, merge_vars, doit_inputs, doit_vars, local_vars, slurm_exp, slurm_cmd, run_vars>>

\* slurm.py:207
SlurmEnsureDirectories ==
  /\ slurm_state = "Configured"
  /\ ~ dry_run
  /\ \E n_ok \in 0..Len(ensure_directories_steps) :
       RemoteSteps(ensure_directories_steps, n_ok, "DirectoriesEnsured")
  /\ UNCHANGED <<cli_vars, merge_vars, doit_inputs, doit_vars, local_vars, slurm_exp, slurm_cmd, run_vars>>

\* slurm.py:208
SlurmDeployToken ==
  /\ slurm_state = "DirectoriesEnsured"
  /\ \E n_ok \in 0..Len(deploy_neptune_token_steps) :
       RemoteSteps(deploy_neptune_token_steps, n_ok, "TokenDeployed")
  /\ UNCHANGED <<cli_vars, merge_vars, doit_inputs, doit_vars, local_vars, slurm_exp, slurm_cmd, run_vars>>

\* Mutant of SlurmDeployCode: the code is deployed right after the directories,
\* ahead of the token
SlurmDeployCode_BeforeToken ==
  /\ slurm_state = "DirectoriesEnsured"
  /\ \E n_ok \in 0..Len(deploy_code_steps) :
       RemoteSteps(deploy_code_steps, n_ok, "CodeDeployed")
  /\ UNCHANGED <<cli_vars, merge_vars, doit_inputs, doit_vars, local_vars, slurm_exp, slurm_cmd, run_vars>>

\* slurm.py:209
SlurmDeployCode ==
  /\ slurm_state = "TokenDeployed"
  /\ \E n_ok \in 0..Len(deploy_code_steps) :
       RemoteSteps(deploy_code_steps, n_ok, "CodeDeployed")
  /\ UNCHANGED <<cli_vars, merge_vars, doit_inputs, doit_vars, local_vars, slurm_exp, slurm_cmd, run_vars>>

\* slurm.py:209: the path deploy_code returned (where the script was put)
deploy_code_script_path ==
  remote_paths[CHOOSE i \in 1..Len(remote_log) : remote_log[i].cmd = "put script"]

\* slurm.py:211-212: build the command (may raise), then run it remotely
SlurmSubmit ==
  /\ slurm_state = "CodeDeployed"
  /\ LET items == resources_items(slurm_exp)
     IN  IF items.err # "none"
         THEN /\ slurm_state' = items.err
              /\ UNCHANGED <<remote_log, remote_paths, remote_fs, slurm_cmd>>
         ELSE /\ slurm_cmd' = command(slurm_exp, PathStr(deploy_code_script_path))
              /\ \E n_ok \in 0..1 :
                   RemoteSteps(<<Step("submit", {"job"}, {})>>, n_ok, "Submitted")
  /\ UNCHANGED <<cli_vars, merge_vars, doit_inputs, doit_vars, local_vars, slurm_exp, run_vars>>

(***************************************************************************)
(* LocalBackend.run(self, experiment) (local.py:16-38)                     *)
(***************************************************************************)
AmbientEnvironments ==
  { D("PATH" :> S("/bin")),
    D(("PATH" :> S("/bin")) @@ ("A" :> S("ambient")) @@ ("NEPTUNE_YAML_PATH" :> S("ambient"))) }

\* local.py:27-35: the environment handed to the child
local_env(environ, rec) ==
  LET env_update == D(  ("NEPTUNE_YAML_PATH" :> Get(rec, "neptune_yaml_path"))
                     @@ ("EXP_DIR_PATH" :> S("exp_dir")))
  IN  Update(Update(environ, env_update), Get(rec, "env"))

\* local.py:16-38: os.environ itself is updated, the child is spawned and waited for,
\* the value of subprocess.call is dropped and run returns None
LocalBackendRun ==
  /\ entry = "local"
  /\ local_ret = "pending"
  /\ \E code \in ExitCodes :
       /\ os_environ' = local_env(os_environ, handed)
       /\ child_env' = local_env(os_environ, handed)
       /\ child_exit' = code
       /\ local_ret' = "None"
  /\ backend_invoked' = "LocalBackend"
  /\ UNCHANGED <<cli_vars, merge_vars, doit_inputs, doit_pc, experiment, doit_err, doit_result, handed,
                 slurm_vars, run_vars>>

(***************************************************************************)
(* doit (mrunner_cli.py:204-293), one action per stage                     *)
(***************************************************************************)
Raise(err) == /\ doit_err' = err
              /\ doit_pc' = "raised"

Stage(r, next_pc) ==
  /\ experiment' = r.rec
  /\ IF r.err = "none"
     THEN doit_pc' = next_pc /\ UNCHANGED doit_err
     ELSE Raise(r.err)
  /\ UNCHANGED <<cli_vars, merge_vars, doit_inputs, doit_result, handed, backend_invoked,
                 local_vars, slurm_vars, run_vars>>

\* mrunner_cli.py:206
DoitToSomeDict ==
  /\ doit_pc = "start"
  /\ Stage(R("none", experiment_to_some_dict(in_experiment, context, cli_kwargs)), "neptune")

\* mrunner_cli.py:208-270
DoitNeptune ==
  /\ doit_pc = "neptune"
  /\ Stage(doit_neptune(experiment, neptune_support, neptune_version, token_exists),
           "overwrite")

\* mrunner_cli.py:272-275
DoitOverwrite ==
  /\ doit_pc = "overwrite"
  /\ Stage(doit_overwrite(experiment, S(in_experiment.neptune_yaml_path)), "cpu")

\* mrunner_cli.py:276-277
DoitCpu ==
  /\ doit_pc = "cpu"
  /\ Stage(doit_cpu(experiment, cpu), "env_update")

\* mrunner_cli.py:285
DoitEnvUpdate ==
  /\ doit_pc = "env_update"
  /\ Stage(doit_env_update(experiment), "dispatch")

\* mrunner_cli.py:287-292: look the backend up, call run(experiment=..., dry_run=...)
DoitDispatch ==
  /\ doit_pc = "dispatch"
  /\ LET cls == backend_class(experiment)
     IN  IF cls = "KeyError"
         THEN Raise("KeyError") /\ UNCHANGED <<handed, backend_invoked, slurm_state>>
         ELSE IF ~ accepts_dry_run(cls)
         THEN /\ Raise("TypeError")      \* the call itself fails: run's body is not entered
              /\ handed' = experiment
              /\ UNCHANGED <<backend_invoked, slurm_state>>
         ELSE /\ handed' = experiment
              /\ backend_invoked' = cls
              /\ doit_pc' = "in_backend"
              /\ slurm_state' = IF cls = "SlurmBackend" THEN "called" ELSE slurm_state
              /\ UNCHANGED doit_err
  /\ UNCHANGED <<cli_vars, merge_vars, doit_inputs, experiment, doit_result, local_vars,
                 slurm_exp, remote_log, remote_paths, remote_fs, slurm_cmd, run_vars>>

\* KubernetesBackend.run(experiment, dry_run): an external submission that
\* completes or raises
KubernetesBackendRun ==
  /\ doit_pc = "in_backend"
  /\ backend_invoked = "KubernetesBackend"
  /\ \E ok \in BOOLEAN :
       IF ok THEN doit_pc' = "ran" /\ UNCHANGED doit_err
       ELSE Raise("KubernetesError")
  /\ UNCHANGED <<cli_vars, merge_vars, doit_inputs, experiment, doit_result, handed, backend_invoked,
                 local_vars, slurm_vars, run_vars>>

\* mrunner_cli.py:292: an exception of backend.run propagates out of doit
DoitBackendRaised ==
  /\ doit_pc = "in_backend"
  /\ backend_invoked = "SlurmBackend"
  /\ slurm_state \in SlurmRaised
  /\ Raise(slurm_state)
  /\ UNCHANGED <<cli_vars, merge_vars, doit_inputs, experiment, doit_result, handed, backend_invoked,
                 local_vars, slurm_vars, run_vars>>

\* mrunner_cli.py:293
DoitReturn ==
  /\ \/ doit_pc = "ran"
     \/ /\ doit_pc = "in_backend"
        /\ backend_invoked = "SlurmBackend"
        /\ slurm_state \in {"Submitted", "DryRunReported"}
  /\ doit_result' = "OK"
  /\ doit_pc' = "returned"
  /\ UNCHANGED <<cli_vars, merge_vars, doit_inputs, experiment, doit_err, handed, backend_invoked,
                 local_vars, slurm_vars, run_vars>>

(***************************************************************************)
(* SpecDoit: one call of doit, or one direct call of a backend's run       *)
(***************************************************************************)
NoOpts == [neptune |-> FALSE, script_has_spec |-> FALSE, shuffle |-> FALSE, limit |-> {},
           base_image |-> FALSE, requirements_file |-> FALSE, generator_raises |-> FALSE]

(***************************************************************************)
(* The cli group callback (mrunner_cli.py:45-80)                           *)
(***************************************************************************)
RequiredContextKeys == {"neptune", "storage_dir", "backend_type", "context_name"}

CliArgs(subcommand, context_opt, current_context, contexts) ==
  [invoked_subcommand |-> subcommand, context |-> context_opt,
   current_context |-> current_context, contexts |-> contexts]
NoCliArgs == CliArgs("none", None, None, EmptyDict)

\* Mutant of cli: the required keys of the selected context are not checked
cli_NoKeyCheck(args) ==
  LET cmd_require_context == args.invoked_subcommand \notin {"context"}
      context_name        == Or(args.context, Or(args.current_context, None))
  IN  IF ~ cmd_require_context THEN R("none", args.context)
      ELSE IF Falsy(context_name) THEN R("ClickException", args.context)
      ELSE IF ~ Has(args.contexts, context_name.s) THEN R("ClickException", args.context)
      ELSE R("none", Get(args.contexts, context_name.s))

\* mrunner_cli.py:58-80: R(error, click_ctx.obj['context'])
cli(args) ==
  LET cmd_require_context == args.invoked_subcommand \notin {"context"}
      context_name        == Or(args.context, Or(args.current_context, None))
  IN  IF ~ cmd_require_context THEN R("none", args.context)
      ELSE IF Falsy(context_name) THEN R("ClickException", args.context)
      ELSE IF ~ Has(args.contexts, context_name.s) THEN R("ClickException", args.context)
      ELSE LET context_ == Get(args.contexts, context_name.s)
           IN  IF \E k \in RequiredContextKeys : ~ Has(context_, k)
               THEN R("ClickException", args.context)
               ELSE R("none", context_)

\* The cli callback and a lone merge call are not part of this operation
CliIdle ==
  /\ cli_pc = "idle"
  /\ cli_args = NoCliArgs
MergeIdle ==
  /\ merge_a = NoRecord
  /\ merge_b = NoRecord
  /\ merge_out = NoRecord

RunIdle ==
  /\ run_pc = "idle"
  /\ opts = NoOpts
  /\ neptune_dir = "None"
  /\ dir_exists = FALSE
  /\ artifacts = 0
  /\ generated = << >>
  /\ experiments = << >>
  /\ submitted = 0
  /\ task = << >>
  /\ dispatched = << >>
  /\ futures = << >>
  /\ collected = {}
  /\ run_err = "none"
  /\ run_result = "none"

BackendsIdle ==
  /\ slurm_exp = NoSlurmExp
  /\ remote_log = << >>
  /\ remote_paths = << >>
  /\ remote_fs = {}
  /\ slurm_cmd = << >>
  /\ child_env = NoRecord
  /\ child_exit = "none"

InitDoit ==
  /\ \/ /\ entry = "doit"
        /\ context \in Contexts
        /\ in_experiment \in GeneratedExperiments
        /\ cli_kwargs \in CliKwargs
        /\ cpu \in CpuOptions
        /\ neptune_support \in BOOLEAN
        /\ neptune_version \in {1, 2}
        /\ token_exists \in BOOLEAN
        /\ doit_pc = "start"
        /\ experiment = NoRecord
        /\ handed = NoRecord
        /\ slurm_state = "idle"
        /\ local_ret = "idle"
        /\ os_environ = D("PATH" :> S("/bin"))
     \/ /\ entry \in {"slurm", "local"}
        /\ context = EmptyDict
        /\ in_experiment = [neptune_yaml_path |-> "exp.yaml", cli_params |-> EmptyDict]
        /\ cli_kwargs = EmptyDict
        /\ cpu = "None"
        /\ neptune_support = TRUE
        /\ neptune_version = 2
        /\ token_exists = TRUE
        /\ doit_pc = "idle"
        /\ handed \in IF entry = "slurm" THEN DirectSlurmRecords ELSE DirectLocalRecords
        /\ experiment = handed
        /\ slurm_state = IF entry = "slurm" THEN "called" ELSE "idle"
        /\ local_ret = IF entry = "local" THEN "pending" ELSE "idle"
        /\ os_environ \in IF entry = "local" THEN AmbientEnvironments
                          ELSE {D("PATH" :> S("/bin"))}
  /\ dry_run \in BOOLEAN
  /\ ssh_keys \in BOOLEAN
  /\ doit_err = "none"
  /\ doit_result = "none"
  /\ backend_invoked = "none"
  /\ BackendsIdle
  /\ RunIdle
  /\ CliIdle
  /\ MergeIdle

NextDoit ==
  \/ DoitToSomeDict
  \/ DoitNeptune
  \/ DoitOverwrite
  \/ DoitCpu
  \/ DoitEnvUpdate
  \/ DoitDispatch
  \/ KubernetesBackendRun
  \/ DoitBackendRaised
  \/ DoitReturn
  \/ SlurmConfigure
  \/ SlurmDryRun
  \/ SlurmEnsureDirectories
  \/ SlurmDeployToken
  \/ SlurmDeployCode
  \/ SlurmSubmit
  \/ LocalBackendRun

SpecDoit == InitDoit /\ [][NextDoit]_vars

(***************************************************************************)
(* The result of a whole call of doit, as the run command sees it: the set *)
(* of values doit may return ("OK") or exceptions it may raise.            *)
(***************************************************************************)
\* SlurmBackend.run (slurm.py:184-214) seen from its caller
slurm_outcomes(rec, dry, keys) ==
  IF ~ keys THEN {"AssertionError"}
  ELSE {"SystemExit"} \cup
       (IF dry THEN {"OK"}
        ELSE LET err == resources_items_error(GetOr(rec, "resources", EmptyDict))
             IN  IF err = "none" THEN {"OK"} ELSE {err})

\* mrunner_cli.py:287-293
dispatch_outcomes(rec, dry, keys) ==
  LET cls == backend_class(rec)
  IN  IF cls = "KeyError" THEN {"KeyError"}
      ELSE IF ~ accepts_dry_run(cls) THEN {"TypeError"}
      ELSE IF cls = "SlurmBackend" THEN slurm_outcomes(rec, dry, keys)
      ELSE {"OK", "KubernetesError"}

\* mrunner_cli.py:204-293
doit_outcomes(exp, ctx, kwargs, cpu_opt, dry, support, version, tok, keys) ==
  LET r1 == doit_neptune(experiment_to_some_dict(exp, ctx, kwargs), support, version, tok)
      r2 == doit_overwrite(r1.rec, S(exp.neptune_yaml_path))
      r3 == doit_cpu(r2.rec, cpu_opt)
      r4 == doit_env_update(r3.rec)
  IN  IF r1.err # "none" THEN {r1.err}
      ELSE IF r2.err # "none" THEN {r2.err}
      ELSE IF r3.err # "none" THEN {r3.err}
      ELSE IF r4.err # "none" THEN {r4.err}
      ELSE dispatch_outcomes(r4.rec, dry, keys)

(***************************************************************************)
(* The run command (mrunner_cli.py:112-186)                                *)
(***************************************************************************)
MaxExperiments == 3
MaxLimit == 2
max_workers == 6

FullOverwrite ==
  D(  ("ntasks" :> S("ow")) @@ ("num_nodes" :> S("ow"))
   @@ ("resources" :> D(("cpu" :> S("ow")) @@ ("mem" :> S("ow")))))

\* The experiments a spec function yields in the runs modelled: one whose spec
\* carries a complete overwrite_dict, one whose spec carries none
RunExperiments ==
  { [neptune_yaml_path |-> "exp.yaml", cli_params |-> CliParams("rich", FullOverwrite, NoRecord)],
    [neptune_yaml_path |-> "exp.yaml", cli_params |-> CliParams("plain", NoRecord, NoRecord)] }

SeqsUpTo(X, n) == UNION { [1..k -> X] : k \in 0..n }

Truthy(v) == v.s \notin {"False", "None", ""}

\* mrunner_cli.py:125
run_neptune_support == Truthy(Get(context, "neptune")) \/ opts.neptune

\* Mutant of run_validate: the check of mrunner_cli.py:126-128 is missing
run_validate_NoDescriptorCheck ==
  LET backend_type == Get(context, "backend_type").s
  IN  IF backend_type = "kubernetes" /\ ~ opts.base_image THEN "ClickException"
      ELSE IF backend_type = "kubernetes" /\ ~ opts.requirements_file THEN "ClickException"
      ELSE IF opts.neptune /\ opts.script_has_spec THEN "ClickException"
      ELSE IF ~ run_neptune_support THEN "ClickException"
      ELSE "none"

\* mrunner_cli.py:119-134: the exception validation raises, or "none"
run_validate ==
  LET backend_type == Get(context, "backend_type").s
  IN  IF backend_type = "kubernetes" /\ ~ opts.base_image THEN "ClickException"
      ELSE IF backend_type = "kubernetes" /\ ~ opts.requirements_file THEN "ClickException"
      ELSE IF run_neptune_support /\ ~ opts.neptune /\ ~ opts.script_has_spec
      THEN "ClickException"
      ELSE IF opts.neptune /\ opts.script_has_spec THEN "ClickException"
      ELSE IF ~ run_neptune_support THEN "ClickException"
      ELSE "none"

\* mrunner.experiment.generate_experiments: with an explicit neptune config exactly
\* one experiment and no artifact; otherwise one experiment and one artifact file
\* per spec the spec function yields
generate_experiments(neptune, spec_yield) ==
  IF neptune THEN <<CHOOSE e \in RunExperiments : Has(e.cli_params, "overwrite_dict")>>
  ELSE spec_yield
artifacts_written(neptune, spec_yield) == IF neptune THEN 0 ELSE Len(spec_yield)

Shuffles(seq) ==
  { [i \in 1..Len(seq) |-> seq[p[i]]] :
      p \in { q \in [1..Len(seq) -> 1..Len(seq)] : \A i, j \in 1..Len(seq) : q[i] = q[j] => i = j } }

\* experiments[:limit] for limit >= 0
Slice(seq, n) == SubSeq(seq, 1, IF n < Len(seq) THEN n ELSE Len(seq))

RunUnchanged == UNCHANGED <<cli_vars, merge_vars, doit_inputs, doit_vars, local_vars, slurm_vars>>

\* mrunner_cli.py:116-134
RunValidate ==
  /\ run_pc = "start"
  /\ IF run_validate = "none"
     THEN run_pc' = "try" /\ UNCHANGED run_result
     ELSE run_pc' = "done" /\ run_result' = "raised"
  /\ UNCHANGED <<opts, neptune_dir, dir_exists, artifacts, generated, experiments, submitted,
                 task, dispatched, futures, collected, run_err>>
  /\ RunUnchanged

\* mrunner_cli.py:139-142
RunMakeDir ==
  /\ run_pc = "try"
  /\ IF run_neptune_support /\ ~ opts.neptune
     THEN neptune_dir' = "set" /\ dir_exists' = TRUE
     ELSE UNCHANGED <<neptune_dir, dir_exists>>
  /\ run_pc' = "generate"
  /\ UNCHANGED <<opts, artifacts, generated, experiments, submitted, task, dispatched,
                 futures, collected, run_err, run_result>>
  /\ RunUnchanged

\* mrunner_cli.py:144-145: the whole generator is consumed into a list
RunGenerate ==
  /\ run_pc = "generate"
  /\ artifacts' = artifacts_written(opts.neptune, generated)
  /\ IF opts.generator_raises
     THEN /\ run_err' = "GenerationError"
          /\ run_pc' = "finally"
          /\ UNCHANGED experiments
     ELSE /\ experiments' = generate_experiments(opts.neptune, generated)
          /\ run_pc' = "shuffle"
          /\ UNCHANGED run_err
  /\ UNCHANGED <<opts, neptune_dir, dir_exists, generated, submitted, task, dispatched,
                 futures, collected, run_result>>
  /\ RunUnchanged

\* mrunner_cli.py:146-151
RunShuffleLimit ==
  /\ run_pc = "shuffle"
  /\ \E shuffled \in IF opts.shuffle THEN Shuffles(experiments) ELSE {experiments} :
       experiments' = IF opts.limit = {} THEN shuffled
                      ELSE Slice(shuffled, CHOOSE n \in opts.limit : TRUE)
  /\ run_pc' = "dispatch"
  /\ UNCHANGED <<opts, neptune_dir, dir_exists, artifacts, generated, submitted, task,
                 dispatched, futures, collected, run_err, run_result>>
  /\ RunUnchanged

run_doit_outcomes(i) ==
  doit_outcomes(experiments[i], context, EmptyDict, cpu, dry_run, run_neptune_support,
                neptune_version, token_exists, ssh_keys)

\* mrunner_cli.py:161-165: a single experiment is dispatched in the caller's process
RunSingle ==
  /\ run_pc = "dispatch"
  /\ Len(experiments) = 1
  /\ dispatched' = <<1>>
  /\ \E outcome \in run_doit_outcomes(1) :
       IF outcome = "OK"
       THEN run_pc' = "report" /\ UNCHANGED run_err
       ELSE run_pc' = "finally" /\ run_err' = outcome
  /\ UNCHANGED <<opts, neptune_dir, dir_exists, artifacts, generated, experiments, submitted,
                 task, futures, collected, run_result>>
  /\ RunUnchanged

\* mrunner_cli.py:168-173: the pool is created
RunOpenPool ==
  /\ run_pc = "dispatch"
  /\ Len(experiments) # 1
  /\ run_pc' = "submit"
  /\ dispatched' = [i \in 1..Len(experiments) |-> 0]
  /\ UNCHANGED <<opts, neptune_dir, dir_exists, artifacts, generated, experiments, submitted,
                 task, futures, collected, run_err, run_result>>
  /\ RunUnchanged

\* mrunner_cli.py:174-177: one iteration of the submit loop
RunSubmit ==
  /\ run_pc = "submit"
  /\ submitted < Len(experiments)
  /\ submitted' = submitted + 1
  /\ task' = Append(task, "queued")
  /\ UNCHANGED <<run_pc, opts, neptune_dir, dir_exists, artifacts, generated, experiments,
                 dispatched, futures, collected, run_err, run_result>>
  /\ RunUnchanged

\* mrunner_cli.py:178: after the loop, `future` (the last one submitted) is appended;
\* with an empty batch the name `future` is unbound
RunAppendFuture ==
  /\ run_pc = "submit"
  /\ submitted = Len(experiments)
  /\ IF submitted = 0
     THEN /\ run_err' = "UnboundLocalError"
          /\ run_pc' = "exit_pool"
          /\ UNCHANGED futures
     ELSE /\ futures' = Append(futures, submitted)
          /\ run_pc' = "collect"
          /\ UNCHANGED run_err
  /\ UNCHANGED <<opts, neptune_dir, dir_exists, artifacts, generated, experiments, submitted,
                 task, dispatched, collected, run_result>>
  /\ RunUnchanged

\* mrunner_cli.py:179-180: future.result() blocks until that work item is done and
\* re-raises its exception
RunCollect ==
  /\ run_pc = "collect"
  /\ \E k \in 1..Len(futures) :
       /\ futures[k] \notin collected
       /\ \A j \in 1..(k - 1) : futures[j] \in collected
       /\ task[futures[k]] \notin {"queued", "running"}
       /\ collected' = collected \cup {futures[k]}
       /\ IF task[futures[k]] # "OK"
          THEN run_err' = task[futures[k]] /\ run_pc' = "exit_pool"
          ELSE /\ UNCHANGED run_err
               /\ run_pc' = IF k = Len(futures) THEN "exit_pool" ELSE "collect"
  /\ UNCHANGED <<opts, neptune_dir, dir_exists, artifacts, generated, experiments, submitted,
                 task, dispatched, futures, run_result>>
  /\ RunUnchanged

\* Mutant of RunExitPool: the pool is left without waiting (shutdown(wait=False))
RunExitPool_NoWait ==
  /\ run_pc = "exit_pool"
  /\ run_pc' = IF run_err = "none" THEN "report" ELSE "finally"
  /\ UNCHANGED <<opts, neptune_dir, dir_exists, artifacts, generated, experiments, submitted,
                 task, dispatched, futures, collected, run_err, run_result>>
  /\ RunUnchanged

\* mrunner_cli.py:172: leaving the `with` block is shutdown(wait=True)
RunExitPool ==
  /\ run_pc = "exit_pool"
  /\ \A i \in 1..Len(task) : task[i] \notin {"queued", "running"}
  /\ run_pc' = IF run_err = "none" THEN "report" ELSE "finally"
  /\ UNCHANGED <<opts, neptune_dir, dir_exists, artifacts, generated, experiments, submitted,
                 task, dispatched, futures, collected, run_err, run_result>>
  /\ RunUnchanged

\* mrunner_cli.py:182
RunReport ==
  /\ run_pc = "report"
  /\ run_pc' = "finally"
  /\ UNCHANGED <<opts, neptune_dir, dir_exists, artifacts, generated, experiments, submitted,
                 task, dispatched, futures, collected, run_err, run_result>>
  /\ RunUnchanged

\* Mutant of RunFinally: the clean-up runs on the normal way out only (no `finally`)
RunFinally_OnSuccessOnly ==
  /\ run_pc = "finally"
  /\ dir_exists' = IF neptune_dir # "None" /\ run_err = "none" THEN FALSE ELSE dir_exists
  /\ run_result' = IF run_err = "none" THEN "ok" ELSE "raised"
  /\ run_pc' = "done"
  /\ UNCHANGED <<opts, neptune_dir, artifacts, generated, experiments, submitted,
                 task, dispatched, futures, collected, run_err>>
  /\ RunUnchanged

\* mrunner_cli.py:184-186
RunFinally ==
  /\ run_pc = "finally"
  /\ dir_exists' = IF neptune_dir # "None" THEN FALSE ELSE dir_exists
  /\ run_result' = IF run_err = "none" THEN "ok" ELSE "raised"
  /\ run_pc' = "done"
  /\ UNCHANGED <<opts, neptune_dir, artifacts, generated, experiments, submitted,
                 task, dispatched, futures, collected, run_err>>
  /\ RunUnchanged

\* A pool worker takes a queued work item and enters doit (at most max_workers at once)
WorkerStart(i) ==
  /\ task[i] = "queued"
  /\ Cardinality({j \in 1..Len(task) : task[j] = "running"}) < max_workers
  /\ task' = [task EXCEPT ![i] = "running"]
  /\ dispatched' = [dispatched EXCEPT ![i] = @ + 1]
  /\ UNCHANGED <<run_pc, opts, neptune_dir, dir_exists, artifacts, generated, experiments,
                 submitted, futures, collected, run_err, run_result>>
  /\ RunUnchanged

\* The worker's doit returns 'OK' or raises; the future holds the outcome
WorkerFinish(i) ==
  /\ task[i] = "running"
  /\ \E outcome \in run_doit_outcomes(i) :
       task' = [task EXCEPT ![i] = outcome]
  /\ UNCHANGED <<run_pc, opts, neptune_dir, dir_exists, artifacts, generated, experiments,
                 submitted, dispatched, futures, collected, run_err, run_result>>
  /\ RunUnchanged

Init ==
  /\ entry = "run"
  /\ context \in { Put(Context(bt, TRUE), "neptune", S(n)) :
                     bt \in BackendTypes, n \in {"True", "False"} }
  /\ opts \in [neptune : BOOLEAN, script_has_spec : BOOLEAN, shuffle : BOOLEAN,
               limit : {{}} \cup {{n} : n \in 0..MaxLimit},
               base_image : BOOLEAN, requirements_file : BOOLEAN,
               generator_raises : BOOLEAN]
  /\ Get(context, "backend_type").s # "kubernetes"
       => ~ opts.base_image /\ ~ opts.requirements_file
  /\ generated \in SeqsUpTo(RunExperiments, MaxExperiments)
  /\ ~ opts.script_has_spec => generated = << >> /\ ~ opts.generator_raises
  /\ dry_run \in BOOLEAN
  /\ cpu = "None"
  /\ cli_kwargs = EmptyDict
  /\ in_experiment = [neptune_yaml_path |-> "exp.yaml", cli_params |-> EmptyDict]
  /\ neptune_support = TRUE
  /\ neptune_version = 2
  /\ token_exists = TRUE
  /\ ssh_keys = TRUE
  /\ doit_pc = "idle"
  /\ experiment = NoRecord
  /\ doit_err = "none"
  /\ doit_result = "none"
  /\ handed = NoRecord
  /\ backend_invoked = "none"
  /\ slurm_state = "idle"
  /\ local_ret = "idle"
  /\ os_environ = D("PATH" :> S("/bin"))
  /\ BackendsIdle
  /\ CliIdle
  /\ MergeIdle
  /\ run_pc = "start"
  /\ neptune_dir = "None"
  /\ dir_exists = FALSE
  /\ artifacts = 0
  /\ experiments = << >>
  /\ submitted = 0
  /\ task = << >>
  /\ dispatched = << >>
  /\ futures = << >>
  /\ collected = {}
  /\ run_err = "none"
  /\ run_result = "none"

Next ==
  \/ RunValidate
  \/ RunMakeDir
  \/ RunGenerate
  \/ RunShuffleLimit
  \/ RunSingle
  \/ RunOpenPool
  \/ RunSubmit
  \/ RunAppendFuture
  \/ RunCollect
  \/ RunExitPool
  \/ RunReport
  \/ RunFinally
  \/ \E i \in 1..Len(task) : WorkerStart(i)
  \/ \E i \in 1..Len(task) : WorkerFinish(i)

Spec == Init /\ [][Next]_vars

(***************************************************************************)
(* SpecCli: the cli group callback, followed by the run subcommand          *)
(***************************************************************************)
\* The configuration file: a complete context and one lacking a required key
ConfiguredContexts(bt) ==
  D(  ("prod" :> Context(bt, TRUE))
   @@ ("broken" :> Pop(Context(bt, TRUE), "storage_dir")))

\* Values of --context and of contexts.current: not given, or a name
ContextNames == {None, S("prod"), S("broken"), S("nowhere")}

\* mrunner_cli.py:45-80: the callback runs before the subcommand
Cli ==
  /\ cli_pc = "start"
  /\ LET r == cli(cli_args)
     IN  IF r.err # "none"
         THEN /\ cli_pc' = "raised"
              /\ UNCHANGED <<context, run_pc>>
         ELSE /\ cli_pc' = "invoked"
              /\ context' = r.rec
              /\ run_pc' = IF cli_args.invoked_subcommand = "run" THEN "start" ELSE run_pc
  /\ UNCHANGED <<cli_args, merge_vars, entry, in_experiment, cli_kwargs, cpu, dry_run,
                 neptune_support, neptune_version, token_exists, ssh_keys,
                 doit_vars, local_vars, slurm_vars,
                 opts, neptune_dir, dir_exists, artifacts, generated, experiments,
                 submitted, task, dispatched, futures, collected, run_err, run_result>>

DoitIdle ==
  /\ cli_kwargs = EmptyDict
  /\ in_experiment = [neptune_yaml_path |-> "exp.yaml", cli_params |-> EmptyDict]
  /\ cpu = "None"
  /\ neptune_support = TRUE
  /\ neptune_version = 2
  /\ token_exists = TRUE
  /\ ssh_keys = TRUE
  /\ doit_pc = "idle"
  /\ experiment = NoRecord
  /\ doit_err = "none"
  /\ doit_result = "none"
  /\ handed = NoRecord
  /\ backend_invoked = "none"
  /\ slurm_state = "idle"
  /\ local_ret = "idle"
  /\ os_environ = D("PATH" :> S("/bin"))

InitCli ==
  /\ entry = "cli"
  /\ cli_pc = "start"
  /\ cli_args \in { CliArgs(sub, opt, cur, ConfiguredContexts(bt)) :
                      sub \in {"run", "context"}, opt \in ContextNames,
                      cur \in ContextNames, bt \in {"slurm", "local"} }
  /\ context = NoRecord
  /\ opts \in [neptune : BOOLEAN, script_has_spec : BOOLEAN, shuffle : {FALSE},
               limit : {{}}, base_image : {FALSE}, requirements_file : {FALSE},
               generator_raises : {FALSE}]
  /\ generated \in SeqsUpTo(RunExperiments, MaxExperiments)
  /\ ~ opts.script_has_spec => generated = << >>
  /\ dry_run \in BOOLEAN
  /\ DoitIdle
  /\ BackendsIdle
  /\ MergeIdle
  /\ run_pc = "idle"
  /\ neptune_dir = "None"
  /\ dir_exists = FALSE
  /\ artifacts = 0
  /\ experiments = << >>
  /\ submitted = 0
  /\ task = << >>
  /\ dispatched = << >>
  /\ futures = << >>
  /\ collected = {}
  /\ run_err = "none"
  /\ run_result = "none"

NextCli ==
  \/ Cli
  \/ Next

SpecCli == InitCli /\ [][NextCli]_vars

(***************************************************************************)
(* SpecMerge: one call of merge(a, b) on nested mappings                    *)
(***************************************************************************)
MaxScalar == 2
Leaves == { S(ToString(n)) : n \in 1..MaxScalar }
OuterKeys == {"a", "b"}
InnerKeys == {"x", "y"}

\* The mappings with keys among `keys` and values among `vals`
Mappings(keys, vals) == { D(f) : f \in UNION { [ks -> vals] : ks \in SUBSET keys } }

MergeArguments == Mappings(OuterKeys, Leaves \cup Mappings(InnerKeys, Leaves))

\* mrunner_cli.py:85-91
MergeCall ==
  /\ entry = "merge"
  /\ merge_out = NoRecord
  /\ merge_out' = merge(merge_a, merge_b)
  /\ UNCHANGED <<cli_vars, merge_a, merge_b, doit_inputs, doit_vars, local_vars,
                 slurm_vars, run_vars>>

InitMerge ==
  /\ entry = "merge"
  /\ merge_a \in MergeArguments
  /\ merge_b \in MergeArguments
  /\ merge_out = NoRecord
  /\ context = EmptyDict
  /\ dry_run = FALSE
  /\ DoitIdle
  /\ BackendsIdle
  /\ RunIdle
  /\ CliIdle

NextMerge == MergeCall

SpecMerge == InitMerge /\ [][NextMerge]_vars

(***************************************************************************)
(* Properties of the run command (checked under Spec)                      *)
(***************************************************************************)
Unfinished == {"queued", "running"}
FanOut == Len(experiments) >= 2
AfterLimit == {"dispatch", "submit", "collect", "exit_pool", "report"}

\* C1: in a fan-out of two or more experiments, if the dispatch of any experiment
\* of the batch raised, run raises too (it does not return normally).
C1_AnyDispatchErrorSurfaced ==
  (run_pc = "done" /\ Len(task) >= 2 /\ \E i \in 1..Len(task) : task[i] # "OK")
    => run_result = "raised"

\* C7: whenever run created the neptune_<stem> directory, the directory is gone
\* once run has returned or raised, whatever the way out.
C7_NeptuneDirRemoved ==
  (run_pc = "done" /\ neptune_dir = "set") => ~ dir_exists

\* C7 witness: run created the directory and left through a failed fan-out dispatch.
C7_Witness ==
  /\ run_pc = "done"
  /\ neptune_dir = "set"
  /\ run_result = "raised"
  /\ Len(task) >= 2
  /\ run_err \notin {"none", "GenerationError", "UnboundLocalError"}

\* C8: with --limit N and no shuffle the batch is the first N generated experiments
\* and at most N tracking-artifact files have been written.
C8_LimitIsLazy ==
  (run_pc \in AfterLimit /\ ~ opts.shuffle /\ opts.limit # {})
    => LET N == CHOOSE n \in opts.limit : TRUE
       IN  /\ experiments = Slice(generate_experiments(opts.neptune, generated), N)
           /\ artifacts <= N

\* C10: in a fan-out every experiment of the batch is submitted and dispatched
\* exactly once, failed siblings notwithstanding, and run leaves the pool only
\* after every worker has finished.
C10_AllDispatchedOnce ==
  /\ \A i \in 1..Len(dispatched) : dispatched[i] <= 1
  /\ (FanOut /\ run_pc \in {"report", "finally", "done"})
       => /\ Len(task) = Len(experiments)
          /\ \A i \in 1..Len(task) : dispatched[i] = 1 /\ task[i] \notin Unfinished

\* C10 witness: a finished fan-out in which one dispatch failed and a sibling succeeded.
C10_Witness ==
  /\ run_pc = "done"
  /\ FanOut
  /\ \E i, j \in 1..Len(task) : task[i] \notin Unfinished \cup {"OK"} /\ task[j] = "OK"

(***************************************************************************)
(* Properties of doit and of the backends (checked under SpecDoit)         *)
(***************************************************************************)
Succeeded(cmd) == \E i \in 1..Len(remote_log) : remote_log[i].cmd = cmd /\ remote_log[i].ok
Configured == Succeeded("echo $SCRATCH") /\ slurm_exp # NoSlurmExp
DirectoriesEnsured == Succeeded("mkdir -p experiment_scratch_dir") /\ Succeeded("mkdir -p storage_dir")
CodeDeployed == Succeeded("put archive") /\ Succeeded("tar xf archive && rm archive")
                /\ Succeeded("put script")
TokenDeployed == slurm_exp.local_neptune_token
                   => Succeeded("mkdir -p token_dir") /\ Succeeded("put token")
CodeCommands  == {"put archive", "tar xf archive && rm archive", "put script"}
TokenCommands == {"mkdir -p token_dir", "put token"}
SideEffectCommands ==
  {"mkdir -p experiment_scratch_dir", "mkdir -p storage_dir", "submit"}
    \cup CodeCommands \cup TokenCommands

\* C2 as stated: directories, then code, then token, then submission; no step
\* starts before its predecessor has completed.
C2_CodeBeforeToken ==
  /\ (\E c \in SideEffectCommands : Ran(c)) => Configured
  /\ (\E c \in CodeCommands : Ran(c)) => DirectoriesEnsured
  /\ (\E c \in TokenCommands : Ran(c)) => CodeDeployed
  /\ Ran("submit") => TokenDeployed /\ CodeDeployed

\* C2 amended: directories, then the token (when a local token exists), then the
\* code archive and submission script, then submission; no step starts before its
\* predecessor has completed, and none of them runs in a dry run.
C2_TokenBeforeCode ==
  /\ (\E c \in SideEffectCommands : Ran(c)) => Configured
  /\ (\E c \in TokenCommands : Ran(c)) => DirectoriesEnsured
  /\ (\E c \in CodeCommands : Ran(c)) => DirectoriesEnsured /\ TokenDeployed
  /\ Ran("submit") => CodeDeployed
  /\ slurm_state = "DirectoriesEnsured" => DirectoriesEnsured /\ ~ Ran("put archive")
  /\ slurm_state = "TokenDeployed" => TokenDeployed /\ ~ Ran("put archive")
  /\ slurm_state = "CodeDeployed" => CodeDeployed /\ ~ Ran("submit")
  /\ slurm_state = "Submitted" => Succeeded("submit") /\ ~ dry_run

\* C2 witness: a non-dry run that deployed a token and reached Submitted.
C2_Witness ==
  /\ slurm_state = "Submitted"
  /\ slurm_exp.local_neptune_token
  /\ Succeeded("put token")

\* C3: whenever doit reaches the dispatcher with a backend_type among local, slurm,
\* kubernetes, the selected backend's run is entered.
C3_BackendAcceptsRun ==
  (entry = "doit" /\ handed # NoRecord /\ Get(handed, "backend_type").s \in BackendTypes)
    => backend_invoked = backend_class(handed)

\* Leaf paths (to depth two) of a dict, and the value at a path
LeafPaths(v) ==
  { <<k>> : k \in { j \in Keys(v) : ~ IsDict(Get(v, j)) } }
    \cup UNION { { <<k1, k2>> : k2 \in Keys(Get(v, k1)) } :
                 k1 \in { j \in Keys(v) : IsDict(Get(v, j)) } }
HasPath(v, p) == IF Len(p) = 1 THEN Has(v, p[1]) ELSE Has2(v, p[1], p[2])
At(v, p) == IF Len(p) = 1 THEN Get(v, p[1]) ELSE Get2(v, p[1], p[2])

\* The four configuration sources of one call of doit
overwriteDict   == GetOr(in_experiment.cli_params, "overwrite_dict", EmptyDict)
cliOverrides    == merge(cli_kwargs,
                         IF cpu = "None" THEN EmptyDict
                         ELSE D("resources" :> D("cpu" :> S(cpu))))
specParameters  == IF Has(in_experiment.cli_params, "overwrite_dict")
                   THEN Pop(in_experiment.cli_params, "overwrite_dict")
                   ELSE in_experiment.cli_params
contextDefaults == context
Sources == <<overwriteDict, cliOverrides, specParameters, contextDefaults>>
SharedPaths ==
  { p \in UNION { LeafPaths(Sources[i]) : i \in 1..4 } :
      Cardinality({ i \in 1..4 : HasPath(Sources[i], p) }) >= 2 }
Winner(p) == Sources[CHOOSE i \in 1..4 : /\ HasPath(Sources[i], p)
                                         /\ \A j \in 1..(i - 1) : ~ HasPath(Sources[j], p)]

\* C4: for any key present in more than one source the record handed to the
\* backend holds the value of the highest source having it, in the order
\* contextDefaults < specParameters < cliOverrides (--cpu included) < overwriteDict.
\* (Stated for experiments without an env_update entry, whose effect on env is C5's.)
C4_Precedence ==
  (entry = "doit" /\ handed # NoRecord /\ ~ Has(in_experiment.cli_params, "env_update"))
    => \A p \in SharedPaths : HasPath(handed, p) /\ At(handed, p) = At(Winner(p), p)

\* C5: every environment variable overwrite_dict.env defines has the overwrite_dict
\* value in the env of the record passed to backend.run.
C5_OverwriteEnvFinal ==
  (entry = "doit" /\ handed # NoRecord /\ Has(overwriteDict, "env"))
    => \A k \in Keys(Get(overwriteDict, "env")) :
         /\ Has2(handed, "env", k)
         /\ Get2(handed, "env", k) = Get2(overwriteDict, "env", k)

\* C6: in a dry run of SlurmBackend.run no remote directory is created, nothing is
\* uploaded and nothing is submitted, and a run that completes ends in DryRunReported.
C6_DryRunNoSideEffects ==
  dry_run =>
    /\ remote_fs = {}
    /\ \A c \in SideEffectCommands : ~ Ran(c)
    /\ slurm_state \notin {"DirectoriesEnsured", "TokenDeployed", "CodeDeployed", "Submitted"}

\* C6 witness: a dry run that reached DryRunReported.
C6_Witness == dry_run /\ slurm_state = "DryRunReported"

\* C9: a non-zero exit code of the child spawned by LocalBackend.run is the value
\* run hands back to its caller.
C9_ExitCodeSurfaced ==
  (local_ret \notin {"idle", "pending"} /\ child_exit # "0") => local_ret = child_exit

\* C11: a resolved experiment whose backend_type is none of local, slurm, kubernetes
\* never gets past doit's backend lookup: no backend's run is entered, no record is
\* handed over, nothing is done remotely or locally, and doit does not return.
C11_UnknownBackendFails ==
  (entry = "doit" /\ Has(experiment, "backend_type")
     /\ Get(experiment, "backend_type").s \notin BackendTypes)
    => /\ backend_invoked = "none"
       /\ handed = NoRecord
       /\ doit_result = "none"
       /\ doit_pc \in {"neptune", "overwrite", "cpu", "env_update", "dispatch", "raised"}
       /\ (doit_pc = "raised" => doit_err # "none")
       /\ slurm_state = "idle" /\ local_ret = "idle"
       /\ remote_log = << >> /\ child_env = NoRecord

\* C11 witness: the lookup of mrunner_cli.py:287-291 itself raised for backend_type
\* "mesos" (every earlier stage of doit had passed).
C11_Witness ==
  /\ entry = "doit"
  /\ doit_pc = "raised"
  /\ doit_err = "KeyError"
  /\ neptune_version = 1
  /\ cpu = "None"
  /\ Has(experiment, "cmd")
  /\ ~ Has(experiment, "overwrite_dict")
  /\ Get(experiment, "backend_type").s = "mesos"

\* seq contains sub as a run of consecutive items
Contains(seq, sub) ==
  \E i \in 0..(Len(seq) - Len(sub)) : \A j \in 1..Len(sub) : seq[i + j] = sub[j]
Tokens(seq) == { seq[i] : i \in 1..Len(seq) }

\* The submission command was built, or building it raised
SubmitAttempted ==
  Ran("submit") \/ slurm_state \in {"Submitted", "ValueError", "AttributeError"}

\* The flag group the resource key k must give
FlagGroupHead(k, qty) ==
  CASE k = "cpu" -> <<"-c", qty.s>>
    [] k = "gpu" -> <<"--gres", "gpu:" \o qty.s>>
    [] k = "mem" -> <<"--mem", qty.s>>

\* C12: once SlurmBackend.run has come to build the submission command: resources
\* with keys among cpu, gpu, mem only give a command with one flag group per key
\* and no error; resources with any other key give ValueError and no command.
C12_ResourceFlags ==
  (entry = "slurm" /\ SubmitAttempted) =>
    IF Keys(slurm_exp.resources) \subseteq SupportedResources
    THEN /\ slurm_state \notin {"ValueError", "AttributeError"}
         /\ Ran("submit")
         /\ \A k \in Keys(slurm_exp.resources) :
              Contains(slurm_cmd, FlagGroupHead(k, Get(slurm_exp.resources, k)))
         /\ Cardinality(Tokens(slurm_cmd) \cap {"-c", "--gres", "--mem"})
              = Cardinality(Keys(slurm_exp.resources))
    ELSE /\ slurm_state = "ValueError"
         /\ slurm_cmd = << >>
         /\ ~ Ran("submit")

AllRemoteSteps ==
  ensure_directories_steps
    \o << Step("mkdir -p token_dir", {"token_dir"}, {}), Step("put token", {"remote_token"}, {}) >>
    \o deploy_code_steps \o << Step("submit", {"job"}, {}) >>
StepsSucceeded == { i \in 1..Len(AllRemoteSteps) : Succeeded(AllRemoteSteps[i].cmd) }
LastOp == remote_log[Len(remote_log)]

\* C14: in a non-dry run a failed remote command is the last one executed and ends
\* the run (SystemExit), so nothing is submitted after a failed step; whatever the
\* steps before it created on the remote host is still there.
C14_AbortOnFailure ==
  ~ dry_run =>
    /\ \A i \in 1..Len(remote_log) :
         ~ remote_log[i].ok => i = Len(remote_log) /\ slurm_state = "SystemExit"
    /\ slurm_state = "SystemExit"
         => Len(remote_log) > 0 /\ ~ LastOp.ok /\ ~ Succeeded(LastOp.cmd)
    /\ UNION { AllRemoteSteps[i].creates : i \in StepsSucceeded }
         \ UNION { AllRemoteSteps[i].removes : i \in StepsSucceeded }
         \subseteq remote_fs

\* C14 witness: the archive was uploaded, its extraction failed, the run stopped
\* there with the directories and the archive left on the remote host.
C14_Witness ==
  /\ ~ dry_run
  /\ slurm_state = "SystemExit"
  /\ Succeeded("put archive")
  /\ LastOp = Op("tar xf archive && rm archive", FALSE)
  /\ {"experiment_scratch_dir", "storage_dir", "archive"} \subseteq remote_fs
  /\ ~ Ran("put script") /\ ~ Ran("submit")

\* out is the deep merge of a and b, as the claim words it
RECURSIVE IsDeepMerge(_, _, _)
IsDeepMerge(a, b, out) ==
  /\ IsDict(out)
  /\ Keys(out) = Keys(a) \cup Keys(b)
  /\ \A k \in Keys(a) \ Keys(b) : Get(out, k) = Get(a, k)
  /\ \A k \in Keys(b) \ Keys(a) : Get(out, k) = Get(b, k)
  /\ \A k \in Keys(a) \cap Keys(b) :
       IF IsDict(Get(a, k)) /\ IsDict(Get(b, k))
       THEN IsDeepMerge(Get(a, k), Get(b, k), Get(out, k))
       ELSE Get(out, k) = Get(b, k)

\* C15: merge(a, b) has the union of the keys; a key of one input keeps its value;
\* a key of both is merged recursively when both values are mappings and takes
\* b's value otherwise.  merge({a:1,b:{x:1}}, {b:{y:2},c:3}) = {a:1,b:{x:1,y:2},c:3}
\* and merge({a:1}, {a:2}) = {a:2}.
C15_DeepMerge ==
  /\ merge_out # NoRecord => IsDeepMerge(merge_a, merge_b, merge_out)
  /\ merge(D(("a" :> S("1")) @@ ("b" :> D("x" :> S("1")))),
           D(("b" :> D("y" :> S("2"))) @@ ("c" :> S("3"))))
       = D(("a" :> S("1")) @@ ("b" :> D(("x" :> S("1")) @@ ("y" :> S("2"))))
           @@ ("c" :> S("3")))
  /\ merge(D("a" :> S("1")), D("a" :> S("2"))) = D("a" :> S("2"))

\* C15 witness: a call in which one shared key holds mappings on both sides (with
\* different inner keys) and the other a mapping on one side and a scalar on the other.
C15_Witness ==
  /\ merge_out # NoRecord
  /\ Keys(merge_a) = OuterKeys /\ Keys(merge_b) = OuterKeys
  /\ IsDict(Get(merge_a, "a")) /\ ~ IsDict(Get(merge_b, "a"))
  /\ IsDict(Get(merge_a, "b")) /\ IsDict(Get(merge_b, "b"))
  /\ Keys(Get(merge_a, "b")) = {"x"} /\ Keys(Get(merge_b, "b")) = {"y"}
  /\ Keys(Get(merge_out, "b")) = {"x", "y"}

\* C16: the record handed to a backend never has the key overwrite_dict, and an
\* experiment whose spec supplies no overwrite_dict, once it is past the command
\* set-up (mrunner_cli.py:208-270), is handed to its backend when doit ends.
C16_OverwriteOptional ==
  /\ handed # NoRecord => ~ Has(handed, "overwrite_dict")
  /\ (entry = "doit" /\ ~ Has(in_experiment.cli_params, "overwrite_dict")
        /\ cpu = "None" /\ Has(experiment, "cmd")
        /\ Get(experiment, "backend_type").s \in BackendTypes
        /\ doit_pc \in {"raised", "in_backend", "ran", "returned"})
       => handed # NoRecord

\* C17: with no spec function in the script and no --neptune path, whatever the
\* context's neptune setting, run raises during validation: no directory is made,
\* nothing is generated and nothing is dispatched.
C17_NoDescriptorRefused ==
  (entry = "run" /\ ~ opts.neptune /\ ~ opts.script_has_spec) =>
    /\ run_pc \in {"start", "done"}
    /\ run_pc = "done" => run_result = "raised"
    /\ neptune_dir = "None" /\ ~ dir_exists
    /\ artifacts = 0 /\ experiments = << >>
    /\ dispatched = << >> /\ task = << >>

\* C17 witness: run was refused in a context whose neptune setting is off.
C17_Witness ==
  /\ entry = "run"
  /\ run_pc = "done" /\ run_result = "raised"
  /\ ~ opts.neptune /\ ~ opts.script_has_spec
  /\ ~ Truthy(Get(context, "neptune"))
  /\ Get(context, "backend_type").s # "kubernetes"

\* C18: in the child's environment every entry of the experiment's env (the
\* reserved name aside) has the experiment's value, and NEPTUNE_YAML_PATH is the
\* experiment's neptune_yaml_path.
C18_ChildEnvLayering ==
  child_env # NoRecord =>
    /\ \A k \in Keys(Get(handed, "env")) \ {"NEPTUNE_YAML_PATH"} :
         Has(child_env, k) /\ Get(child_env, k) = Get2(handed, "env", k)
    /\ Has(child_env, "NEPTUNE_YAML_PATH")
    /\ Get(child_env, "NEPTUNE_YAML_PATH") = Get(handed, "neptune_yaml_path")

\* The name the cli selects the context by, and whether it names a usable context
SelectedName ==
  IF cli_args.context # None THEN cli_args.context ELSE cli_args.current_context
ValidSelection ==
  /\ SelectedName # None
  /\ Has(cli_args.contexts, SelectedName.s)
  /\ RequiredContextKeys \subseteq Keys(Get(cli_args.contexts, SelectedName.s))

\* C19: for a subcommand other than `context`, once the callback is over: if the
\* name (--context, else the current context) names a configured context with all
\* required keys, that context is the active one from then on; otherwise the cli
\* has raised and run has not started, generated or dispatched anything.
C19_ContextSelected ==
  (entry = "cli" /\ cli_args.invoked_subcommand # "context") =>
    /\ cli_pc = "start" => run_pc = "idle" /\ context = NoRecord
    /\ cli_pc # "start" =>
         IF ValidSelection
         THEN /\ cli_pc = "invoked"
              /\ context = Get(cli_args.contexts, SelectedName.s)
         ELSE /\ cli_pc = "raised"
              /\ run_pc = "idle" /\ context = NoRecord
              /\ neptune_dir = "None" /\ ~ dir_exists /\ artifacts = 0
              /\ experiments = << >> /\ dispatched = << >> /\ task = << >>

\* C19 witness: without --context, the current context lacks a required key and
\* the cli raised.
C19_Witness ==
  /\ entry = "cli"
  /\ cli_args.invoked_subcommand = "run"
  /\ cli_args.context = None
  /\ cli_args.current_context = S("broken")
  /\ cli_pc = "raised"

\* C20: without keys in the SSH agent SlurmBackend.run ends in AssertionError, dry
\* run or not, having run no remote command and uploaded nothing, and stays there.
C20_NoKeysFailsFirst ==
  ~ ssh_keys =>
    /\ slurm_state \in {"idle", "called", "AssertionError"}
    /\ remote_log = << >> /\ remote_fs = {}
    /\ slurm_exp = NoSlurmExp /\ slurm_cmd = << >>
    /\ (doit_pc = "raised" /\ backend_invoked = "SlurmBackend")
         => doit_err = "AssertionError"

\* C20 witness: a dry run without keys ended in AssertionError.
C20_Witness ==
  /\ ~ ssh_keys
  /\ dry_run
  /\ slurm_state = "AssertionError"
  /\ remote_log = << >>

EnsuredScratchDir ==
  remote_paths[CHOOSE i \in 1..Len(remote_log) :
                 remote_log[i].cmd = "mkdir -p experiment_scratch_dir"]
ProjectOf(dir) == SubSeq(dir, 1, Len(dir) - 1)
ScriptPathOf(dir) == ProjectOf(dir) \o <<dir[Len(dir)] \o ".sh">>

\* C22: every step of one SlurmBackend.run works on the experiment_scratch_dir made
\* by ensure_directories: the archive is uploaded to and extracted in it, the
\* script is put at <project_scratch_dir>/<its relative path>.sh, the submitted
\* command names that script and, for sbatch, logs to <that directory>/slurm.log;
\* it is the directory generated when the run was configured.
C22_ScratchDirFixed ==
  Ran("mkdir -p experiment_scratch_dir") =>
    /\ EnsuredScratchDir = generate_experiment_scratch_dir(slurm_exp.scratch)
    /\ \A i \in 1..Len(remote_log) :
         /\ remote_log[i].cmd \in {"mkdir -p experiment_scratch_dir", "put archive",
                                   "tar xf archive && rm archive"}
              => remote_paths[i] = EnsuredScratchDir
         /\ remote_log[i].cmd \in {"put script", "submit"}
              => remote_paths[i] = ScriptPathOf(EnsuredScratchDir)
    /\ slurm_cmd # << >> =>
         /\ slurm_cmd[Len(slurm_cmd)] = PathStr(ScriptPathOf(EnsuredScratchDir))
         /\ slurm_exp.cmd_type = "sbatch" /\ slurm_exp.log_output_path = None
              => Contains(slurm_cmd,
                          <<"-o", PathStr(EnsuredScratchDir \o <<"slurm.log">>)>>)

\* C22 witness: an sbatch run reached Submitted, with archive, script and log all
\* under the directory of the second random id.
C22_Witness ==
  /\ slurm_state = "Submitted"
  /\ slurm_exp.cmd_type = "sbatch"
  /\ slurm_exp.scratch = 2
  /\ EnsuredScratchDir = <<"$SCRATCH", "mrunner_scratch", "user_project", "name_2">>
  /\ Contains(slurm_cmd, <<"-o", "$SCRATCH/mrunner_scratch/user_project/name_2/slurm.log">>)
  /\ slurm_cmd[Len(slurm_cmd)] = "$SCRATCH/mrunner_scratch/user_project/name_2.sh"

\* C23: a slurm experiment dispatched by doit, whose sources name only cpu and mem
\* as resources, is handed to SlurmBackend.run with resources keyed by cpu, gpu,
\* mem only, and building the submission command raises no ValueError.
C23_DoitSlurmResources ==
  (entry = "doit" /\ backend_invoked = "SlurmBackend") =>
    /\ Has(handed, "resources")
    /\ Keys(Get(handed, "resources")) \subseteq SupportedResources
    /\ slurm_state # "ValueError"

\* One of the dispatches of the batch failed
DispatchFailed ==
  \/ \E i \in 1..Len(task) : task[i] \notin Unfinished \cup {"OK"}
  \/ Len(experiments) = 1 /\ run_err # "none"

\* C24: once options are valid and generation has succeeded, a batch of any size
\* n >= 0 whose dispatches all succeed makes run return normally after exactly n
\* dispatches.
C24_AnyBatchSizeCompletes ==
  (entry = "run" /\ run_pc = "done" /\ run_validate = "none"
     /\ ~ opts.generator_raises /\ ~ DispatchFailed)
    => /\ run_result = "ok"
       /\ Len(dispatched) = Len(experiments)
       /\ \A i \in 1..Len(dispatched) : dispatched[i] = 1

====
